---- MODULE Spec2Model ----
(***************************************************************************)
(* A model of serde-wasm-bindgen's serializer (src/ser.rs): the scalar     *)
(* rules of `impl ser::Serializer for &Serializer`, the composite builders *)
(* ArraySerializer, MapSerializer and ObjectSerializer, and the            *)
(* VariantSerializer wrapper.                                              *)
(*                                                                         *)
(* 64-bit integers do not fit TLC's integers, so a magnitude below 2^72 is *)
(* kept as three 24-bit limbs <<hi, mid, lo>>, and an integer as a sign    *)
(* and a magnitude.  A JavaScript number is kept as the integer it equals  *)
(* (only integer-valued doubles arise here).                               *)
(***************************************************************************)
EXTENDS Integers, Sequences, FiniteSets, TLC

VARIABLES
    arg,                \* the value handed to the serializer (scalar rules)
    out,                \* what the serializer returned for arg
    debug_assertions,   \* the build profile: whether debug_assert! is compiled in
    reflect_set,        \* the host: what Reflect.set does for each property name
    stage,              \* the producer's position in one top-level conversion
    builder,            \* the builder the producer holds
    events,             \* the builder events delivered so far, with what each returned
    result,             \* what the top-level conversion returned to its caller
    memory,             \* the source (linear) memory holding the byte slice
    generation,         \* how often the source memory has been relocated
    converted,          \* the host value serialize_bytes returned
    snapshot            \* the slice's bytes when serialize_bytes ran

vars == <<arg, out, debug_assertions, reflect_set, stage, builder, events, result,
          memory, generation, converted, snapshot>>

\* ------------------------------------------------------------------ bounds

\* How far on either side of each numeric boundary the integer inputs reach.
Delta == 3

\* How many events one Map builder, one Array builder and one Object builder take.
MaxMapEvents == 4

MaxElements == 3

MaxFields == 3

\* The longest byte slice, and how often the source memory may be relocated.
MaxBytes == 2

MaxGrow == 2

\* ------------------------------------------------------- wide integers

Limb == 2^24

\* <<hi, mid, x>> with x carried (or borrowed) into mid and hi.
Carry(hi, mid, x) ==
    LET m == mid + (x \div Limb)
    IN  <<hi + (m \div Limb), m % Limb, x % Limb>>

MagAdd(mag, d) == Carry(mag[1], mag[2], mag[3] + d)

MagLE(a, b) ==
    \/ a[1] < b[1]
    \/ a[1] = b[1] /\ a[2] < b[2]
    \/ a[1] = b[1] /\ a[2] = b[2] /\ a[3] <= b[3]

MagZero == <<0, 0, 0>>

\* An integer: sign and magnitude (zero is never negative).
MkInt(neg, mag) == [neg |-> neg /\ mag # MagZero, mag |-> mag]

\* An integer that fits one limb.
Small(n) == IF n < 0 THEN MkInt(TRUE, <<0, 0, -n>>) ELSE MkInt(FALSE, <<0, 0, n>>)

\* Signed comparison a <= b, as Rust's `<=` on i64.
IntLE(a, b) ==
    IF a.neg /\ ~b.neg THEN TRUE
    ELSE IF ~a.neg /\ b.neg THEN FALSE
    ELSE IF a.neg THEN MagLE(b.mag, a.mag)
    ELSE MagLE(a.mag, b.mag)

IntNeg(a) == MkInt(~a.neg, a.mag)

\* x + d, for d small against x's magnitude or x small itself.
IntAdd(x, d) ==
    IF x.mag[1] = 0 /\ x.mag[2] = 0
    THEN Small((IF x.neg THEN -x.mag[3] ELSE x.mag[3]) + d)
    ELSE MkInt(x.neg, MagAdd(x.mag, IF x.neg THEN -d ELSE d))

\* 2^e, e < 72.
TwoTo(e) ==
    MkInt(FALSE, <<IF e >= 48 THEN 2^(e - 48) ELSE 0,
                   IF e >= 24 /\ e < 48 THEN 2^(e - 24) ELSE 0,
                   IF e < 24 THEN 2^e ELSE 0>>)

RECURSIVE BitLen(_)
BitLen(n) == IF n = 0 THEN 0 ELSE 1 + BitLen(n \div 2)

MagBitLen(mag) ==
    IF mag[1] > 0 THEN 48 + BitLen(mag[1])
    ELSE IF mag[2] > 0 THEN 24 + BitLen(mag[2])
    ELSE BitLen(mag[3])

\* Rust's `v as f64` on a 64-bit integer: the nearest double, ties to even.
\* A double keeps 53 significant bits.
AsF64(v) ==
    LET len == MagBitLen(v.mag)
    IN  IF len <= 53 THEN v
        ELSE LET s    == len - 53
                 q    == v.mag[3] \div (2^s)
                 r    == v.mag[3] % (2^s)
                 half == 2^(s - 1)
                 up   == IF r > half \/ (r = half /\ q % 2 = 1) THEN 1 ELSE 0
             IN  MkInt(v.neg, Carry(v.mag[1], v.mag[2], (q + up) * (2^s)))

\* Rust's `{}` of an integer: its decimal digits, "-" first when negative.
Digit(d) == <<"0", "1", "2", "3", "4", "5", "6", "7", "8", "9">>[d + 1]

\* mag divided by ten: <<quotient, remainder>>.
MagDivTen(mag) ==
    LET q1 == mag[1] \div 10
        r1 == mag[1] % 10
        q2 == (r1 * Limb + mag[2]) \div 10
        r2 == (r1 * Limb + mag[2]) % 10
        q3 == (r2 * Limb + mag[3]) \div 10
        r3 == (r2 * Limb + mag[3]) % 10
    IN  <<(<<q1, q2, q3>>), r3>>

RECURSIVE MagDigits(_)
MagDigits(mag) ==
    LET qr == MagDivTen(mag)
    IN  IF qr[1] = MagZero THEN <<Digit(qr[2])>>
        ELSE Append(MagDigits(qr[1]), Digit(qr[2]))

Display(v) == (IF v.neg THEN <<"-">> ELSE <<>>) \o MagDigits(v.mag)

\* ------------------------------------------------------------ host values

UNDEFINED == [k |-> "undefined"]

JsBoolean(b) == [k |-> "boolean", b |-> b]

\* A host number, kept as the integer the double equals.
JsNumber(x) == [k |-> "number", x |-> x]

JsString(s) == [k |-> "string", s |-> s]

\* Array::new(), Map::new(), Object::new(): fresh and empty.
Array_new == [k |-> "Array", items |-> <<>>]

Map_new == [k |-> "Map", entries |-> <<>>]

Object_new == [k |-> "Object", props |-> <<>>]

Array_push(target, value) == [target EXCEPT !.items = Append(@, value)]

\* The host map's key equality (SameValueZero): primitives by value, objects
\* by identity, and every converted object is a fresh one.
SameValueZero(a, b) ==
    /\ a.k \in {"undefined", "boolean", "number", "string"}
    /\ a = b

\* Map.prototype.set: an equal key keeps its place and takes the new value.
Map_set(target, key, value) ==
    LET es == target.entries
        at == {i \in DOMAIN es : SameValueZero(es[i].key, key)}
    IN  IF at = {}
        THEN [target EXCEPT !.entries = Append(@, [key |-> key, value |-> value])]
        ELSE [target EXCEPT
                 !.entries = [i \in DOMAIN es |->
                                 IF i \in at THEN [key |-> es[i].key, value |-> value]
                                 ELSE es[i]]]

\* ---------------------------------------------------------------- results

Ok(value) == [tag |-> "Ok", value |-> value]

\* Ok(()) of the builders' `Result<()>`.
OkUnit == [tag |-> "Ok"]

Err(msg) == [tag |-> "Err", msg |-> msg]

\* A panic (unwrap of None or of Err, a failed debug_assert!): no value and no
\* error value reaches the caller.
Panic(what) == [tag |-> "Panic", what |-> what]

None == [some |-> FALSE]

Some(v) == [some |-> TRUE, v |-> v]

\* super::static_str_to_js: the host string of a static name.
static_str_to_js(name) == JsString(name)

\* super::convert_error: a thrown host value as this crate's Error.
convert_error(thrown) == Err(<<thrown>>)

\* Error::custom(msg): the Error carrying msg's text.
Error_custom(msg) == Err(msg)

\* Reflect::set(target, key, value) on a plain object: Ok(true) with the
\* property set (a new one is appended, an existing one keeps its place),
\* Ok(false) when the host refuses the assignment, Err when it throws.
\* The host's answer depends on the property name (reflect_set).
Reflect_set(target, key, value) ==
    LET ps == target.props
        at == {i \in DOMAIN ps : ps[i].name = key.s}
    IN  CASE reflect_set[key.s] = "throws" ->
               [target |-> target, ret |-> [tag |-> "Err", thrown |-> "TypeError"]]
          [] reflect_set[key.s] = "refuses" ->
               [target |-> target, ret |-> Ok(FALSE)]
          [] OTHER ->
               [target |-> IF at = {}
                           THEN [target EXCEPT
                                    !.props = Append(@, [name |-> key.s, value |-> value])]
                           ELSE [target EXCEPT
                                    !.props = [i \in DOMAIN ps |->
                                                  IF i \in at
                                                  THEN [name |-> key.s, value |-> value]
                                                  ELSE ps[i]]],
                ret |-> Ok(TRUE)]

\* ----------------------------------------------------------- value shapes

VBool(b) == [shape |-> "bool", b |-> b]

VI32(n) == [shape |-> "i32", n |-> n]

VU8(n) == [shape |-> "u8", n |-> n]

VI64(x) == [shape |-> "i64", x |-> x]

VU64(x) == [shape |-> "u64", x |-> x]

VChar(c) == [shape |-> "char", c |-> c]

VStr(s) == [shape |-> "str", s |-> s]

VNone == [shape |-> "none"]

VSome(v) == [shape |-> "some", value |-> v]

VUnit == [shape |-> "unit"]

VUnitStruct(name) == [shape |-> "unit_struct", name |-> name]

VUnitVariant(variant) == [shape |-> "unit_variant", variant |-> variant]

VNewtypeStruct(name, v) == [shape |-> "newtype_struct", name |-> name, value |-> v]

VNewtypeVariant(variant, v) ==
    [shape |-> "newtype_variant", variant |-> variant, value |-> v]

VSeq(elems) == [shape |-> "seq", elems |-> elems]

VTupleVariant(variant, elems) ==
    [shape |-> "tuple_variant", variant |-> variant, elems |-> elems]

\* pairs: a sequence of <<key, value>>.
VMap(pairs) == [shape |-> "map", pairs |-> pairs]

\* fields: a sequence of <<label, value>>.
VStruct(fields) == [shape |-> "struct", fields |-> fields]

VStructVariant(variant, fields) ==
    [shape |-> "struct_variant", variant |-> variant, fields |-> fields]

\* ------------------------------------------------------------ scalar rules

RECURSIVE Serialize(_), Produce(_, _), ProduceNext(_, _)

\* forward_to_into!: Ok(v.into()).
serialize_bool(v) == Ok(JsBoolean(v))

serialize_i32(v) == Ok(JsNumber(Small(v)))

serialize_u8(v) == Ok(JsNumber(Small(v)))

serialize_f64(v) == Ok(JsNumber(v))

serialize_str(v) == Ok(JsString(v))

MAX_SAFE_INTEGER == MkInt(FALSE, <<2^5 - 1, Limb - 1, Limb - 1>>)

MIN_SAFE_INTEGER == IntNeg(MAX_SAFE_INTEGER)

MAX_SAFE_INTEGER_U64 == MkInt(FALSE, <<2^5 - 1, Limb - 1, Limb - 1>>)

CantBeRepresented(v) ==
    Error_custom(Display(v) \o <<" can't be represented as a JavaScript number">>)

\* Mutant: the range check lets 2^53 and -(2^53) through.
serialize_i64_inclusive(v) ==
    IF IntLE(IntAdd(MIN_SAFE_INTEGER, -1), v) /\ IntLE(v, IntAdd(MAX_SAFE_INTEGER, 1))
    THEN serialize_f64(AsF64(v))
    ELSE CantBeRepresented(v)

serialize_i64(v) ==
    IF IntLE(MIN_SAFE_INTEGER, v) /\ IntLE(v, MAX_SAFE_INTEGER)
    THEN serialize_f64(AsF64(v))
    ELSE CantBeRepresented(v)

serialize_u64(v) ==
    IF IntLE(v, MAX_SAFE_INTEGER_U64)
    THEN serialize_f64(AsF64(v))
    ELSE CantBeRepresented(v)

\* A char is always a valid code point, so from_code_point1 never fails.
serialize_char(v) == Ok(JsString(v))

serialize_none == Ok(UNDEFINED)

\* Mutant: some(v) is wrapped in a one-element array.
WrapSome(r) == IF r.tag # "Ok" THEN r ELSE Ok(Array_push(Array_new, r.value))

serialize_some_wrapped(value) == WrapSome(Serialize(value))

serialize_some(value) == Serialize(value)

serialize_unit == Ok(UNDEFINED)

serialize_unit_struct(name) == serialize_unit

serialize_unit_variant(variant) == Ok(static_str_to_js(variant))

serialize_newtype_struct(name, value) == Serialize(value)

\* ----------------------------------------------------------------- builders

ArraySerializer_new == [ty |-> "ArraySerializer", target |-> Array_new]

\* Mutant: a failed element is skipped and the call returns Ok.
ArraySerializer_push_lenient(self, r) ==
    IF r.tag # "Ok" THEN [self |-> self, ret |-> OkUnit]
    ELSE [self |-> [self EXCEPT !.target = Array_push(@, r.value)], ret |-> OkUnit]

\* self.target.push(&r?): r is what the child's conversion returned.
ArraySerializer_push(self, r) ==
    IF r.tag # "Ok" THEN [self |-> self, ret |-> r]
    ELSE [self |-> [self EXCEPT !.target = Array_push(@, r.value)], ret |-> OkUnit]

ArraySerializer_serialize_element(self, value) ==
    ArraySerializer_push(self, Serialize(value))

ArraySerializer_end(self) == Ok(self.target)

MapSerializer_new == [ty |-> "MapSerializer", target |-> Map_new, next_key |-> None]

\* self.next_key = Some(r?): r is what the key's conversion returned.
MapSerializer_store_key(self, r) ==
    IF r.tag # "Ok" THEN [self |-> self, ret |-> r]
    ELSE [self |-> [self EXCEPT !.next_key = Some(r.value)], ret |-> OkUnit]

MapSerializer_serialize_key(self, key) ==
    IF debug_assertions /\ self.next_key.some
    THEN [self |-> self, ret |-> Panic("assertion failed: self.next_key.is_none()")]
    ELSE MapSerializer_store_key(self, Serialize(key))

\* Mutant: a key the map already holds keeps its first value.
MapSerializer_set_first_wins(self, taken, r) ==
    IF r.tag # "Ok" THEN [self |-> self, ret |-> r]
    ELSE IF \E i \in DOMAIN self.target.entries :
                SameValueZero(self.target.entries[i].key, taken)
    THEN [self |-> self, ret |-> OkUnit]
    ELSE [self |-> [self EXCEPT !.target = Map_set(@, taken, r.value)], ret |-> OkUnit]

\* self.target.set(&taken, &r?): self has given up its key, taken.
MapSerializer_set(self, taken, r) ==
    IF r.tag # "Ok" THEN [self |-> self, ret |-> r]
    ELSE [self |-> [self EXCEPT !.target = Map_set(@, taken, r.value)], ret |-> OkUnit]

\* The key is taken (and unwrapped) before the value is converted.
MapSerializer_serialize_value(self, value) ==
    IF ~self.next_key.some
    THEN [self |-> [self EXCEPT !.next_key = None],
          ret |-> Panic("Option::unwrap() on a None value")]
    ELSE MapSerializer_set([self EXCEPT !.next_key = None], self.next_key.v,
                           Serialize(value))

MapSerializer_end(self) ==
    IF debug_assertions /\ self.next_key.some
    THEN Panic("assertion failed: self.next_key.is_none()")
    ELSE Ok(self.target)

ObjectSerializer_new == [ty |-> "ObjectSerializer", target |-> Object_new]

\* Reflect::set's Ok(bool) is dropped; only a thrown value becomes an error.
\* set is what Reflect::set returned: .map_err(convert_error)?
ObjectSerializer_assigned(self, set) ==
    IF set.ret.tag = "Err"
    THEN [self |-> self, ret |-> convert_error(set.ret.thrown)]
    ELSE [self |-> [self EXCEPT !.target = set.target], ret |-> OkUnit]

\* Mutant: the field is assigned on a fresh object, not on self.target.
ObjectSerializer_set_fresh(self, key, r) ==
    IF r.tag # "Ok" THEN [self |-> self, ret |-> r]
    ELSE ObjectSerializer_assigned(self, Reflect_set(Object_new, key, r.value))

\* Reflect::set(&self.target, &key, &r?): r is what the value's conversion returned.
ObjectSerializer_set(self, key, r) ==
    IF r.tag # "Ok" THEN [self |-> self, ret |-> r]
    ELSE ObjectSerializer_assigned(self, Reflect_set(self.target, key, r.value))

ObjectSerializer_serialize_field(self, key, value) ==
    ObjectSerializer_set(self, static_str_to_js(key), Serialize(value))

ObjectSerializer_end(self) == Ok(self.target)

VariantSerializer_new(variant, inner) ==
    [ty |-> "VariantSerializer", variant |-> variant, inner |-> inner]

\* SerializeTupleVariant / SerializeStructVariant: the inner builder takes the field.
\* s is what the inner builder's method returned; the wrapper keeps the builder.
VariantSerializer_inner(self, s) ==
    [self |-> [self EXCEPT !.inner = s.self], ret |-> s.ret]

VariantSerializer_serialize_field(self, ev) ==
    VariantSerializer_inner(self,
        IF self.inner.ty = "ArraySerializer"
        THEN ArraySerializer_serialize_element(self.inner, ev.value)
        ELSE ObjectSerializer_serialize_field(self.inner, ev.key, ev.value))

\* set is what Reflect::set returned: .unwrap(), then Ok(obj).
VariantSerializer_tagged(set) ==
    IF set.ret.tag = "Err"
    THEN Panic("Result::unwrap() on an Err value")
    ELSE Ok(set.target)

\* Mutant: the payload is returned as it is, without the tag.
VariantSerializer_wrap_bare(variant, value) == value

\* value is inner(self.inner): `?`, then the tagged object.
VariantSerializer_wrap(variant, value) ==
    IF value.tag # "Ok" THEN value
    ELSE VariantSerializer_tagged(
             Reflect_set(Object_new, static_str_to_js(variant), value.value))

\* end(self, inner): inner is Ok (a bare value), or the inner builder's end.
VariantSerializer_end(self, inner) ==
    VariantSerializer_wrap(self.variant,
        CASE inner = "Ok" -> Ok(self.inner)
          [] self.inner.ty = "ArraySerializer" -> ArraySerializer_end(self.inner)
          [] OTHER -> ObjectSerializer_end(self.inner))

\* VariantSerializer::new(variant, r?).end(Ok)
VariantSerializer_of(variant, r) ==
    IF r.tag # "Ok" THEN r
    ELSE VariantSerializer_end(VariantSerializer_new(variant, r.value), "Ok")

serialize_newtype_variant(variant, value) ==
    VariantSerializer_of(variant, serialize_newtype_struct(variant, value))

serialize_seq == ArraySerializer_new

serialize_tuple_struct(name) == serialize_seq

serialize_tuple_variant(variant) ==
    VariantSerializer_new(variant, serialize_tuple_struct(variant))

serialize_map == MapSerializer_new

serialize_struct(name) == ObjectSerializer_new

serialize_struct_variant(variant) ==
    VariantSerializer_new(variant, serialize_struct(variant))

\* --------------------------------------------------------------- producers

\* One builder event.
Element(v) == [op |-> "element", value |-> v]

Key(v) == [op |-> "key", value |-> v]

Value(v) == [op |-> "value", value |-> v]

Field(label, v) == [op |-> "field", key |-> label, value |-> v]

\* The builder method an event calls: [self |-> the builder after, ret |-> Result<()>].
Deliver(self, ev) ==
    CASE self.ty = "ArraySerializer" -> ArraySerializer_serialize_element(self, ev.value)
      [] self.ty = "MapSerializer" /\ ev.op = "key" ->
           MapSerializer_serialize_key(self, ev.value)
      [] self.ty = "MapSerializer" /\ ev.op = "value" ->
           MapSerializer_serialize_value(self, ev.value)
      [] self.ty = "ObjectSerializer" ->
           ObjectSerializer_serialize_field(self, ev.key, ev.value)
      [] self.ty = "VariantSerializer" -> VariantSerializer_serialize_field(self, ev)

\* The builder's end.
Finish(self) ==
    CASE self.ty = "ArraySerializer" -> ArraySerializer_end(self)
      [] self.ty = "MapSerializer" -> MapSerializer_end(self)
      [] self.ty = "ObjectSerializer" -> ObjectSerializer_end(self)
      [] self.ty = "VariantSerializer" -> VariantSerializer_end(self, "S::end")

\* A producer that follows serde's protocol (a derived or std Serialize):
\* each event in order, returning at the first that fails (`?`), then end.
Produce(self, evs) ==
    IF evs = <<>> THEN Finish(self) ELSE ProduceNext(Deliver(self, Head(evs)), Tail(evs))

\* s is what the builder call returned: `?`, then the events left.
ProduceNext(s, evs) ==
    IF s.ret.tag # "Ok" THEN s.ret ELSE Produce(s.self, evs)

RECURSIVE PairEvents(_)
PairEvents(pairs) ==
    IF pairs = <<>> THEN <<>>
    ELSE <<Key(Head(pairs)[1]), Value(Head(pairs)[2])>> \o PairEvents(Tail(pairs))

ElementEvents(elems) == [i \in DOMAIN elems |-> Element(elems[i])]

FieldEvents(fields) == [i \in DOMAIN fields |-> Field(fields[i][1], fields[i][2])]

\* value.serialize(serializer): the Serializer method of the value's shape.
Serialize(value) ==
    CASE value.shape = "bool" -> serialize_bool(value.b)
      [] value.shape = "i32" -> serialize_i32(value.n)
      [] value.shape = "u8" -> serialize_u8(value.n)
      [] value.shape = "i64" -> serialize_i64(value.x)
      [] value.shape = "u64" -> serialize_u64(value.x)
      [] value.shape = "char" -> serialize_char(value.c)
      [] value.shape = "str" -> serialize_str(value.s)
      [] value.shape = "none" -> serialize_none
      [] value.shape = "some" -> serialize_some(value.value)
      [] value.shape = "unit" -> serialize_unit
      [] value.shape = "unit_struct" -> serialize_unit_struct(value.name)
      [] value.shape = "unit_variant" -> serialize_unit_variant(value.variant)
      [] value.shape = "newtype_struct" ->
           serialize_newtype_struct(value.name, value.value)
      [] value.shape = "newtype_variant" ->
           serialize_newtype_variant(value.variant, value.value)
      [] value.shape = "seq" -> Produce(serialize_seq, ElementEvents(value.elems))
      [] value.shape = "tuple_variant" ->
           Produce(serialize_tuple_variant(value.variant), ElementEvents(value.elems))
      [] value.shape = "map" -> Produce(serialize_map, PairEvents(value.pairs))
      [] value.shape = "struct" ->
           Produce(serialize_struct("struct"), FieldEvents(value.fields))
      [] value.shape = "struct_variant" ->
           Produce(serialize_struct_variant(value.variant), FieldEvents(value.fields))

\* ------------------------------------------------- the scalar specification

I64_MAX == IntAdd(TwoTo(63), -1)

I64_MIN == IntNeg(TwoTo(63))

U64_MAX == IntAdd(TwoTo(64), -1)

Near == (-Delta) .. Delta

I64Inputs ==
    {IntAdd(Small(0), d) : d \in Near}
        \cup {IntAdd(TwoTo(53), d) : d \in Near}
        \cup {IntAdd(IntNeg(TwoTo(53)), d) : d \in Near}
        \cup {IntAdd(TwoTo(54), d) : d \in Near}
        \cup {IntAdd(I64_MAX, -d) : d \in 0 .. Delta}
        \cup {IntAdd(I64_MIN, d) : d \in 0 .. Delta}

U64Inputs ==
    {IntAdd(Small(0), d) : d \in 0 .. Delta}
        \cup {IntAdd(TwoTo(53), d) : d \in Near}
        \cup {IntAdd(TwoTo(63), d) : d \in Near}
        \cup {IntAdd(U64_MAX, -d) : d \in 0 .. Delta}

Payloads ==
    {VUnit, VNone, VUnitStruct("Marker"), VI32(5), VU8(5), VBool(TRUE), VStr("a"),
     VChar("a"), VUnitVariant("Foo"), VNewtypeStruct("Meters", VI32(5)),
     VNewtypeVariant("Bar", VI32(5)), VI64(TwoTo(53)), VU64(IntAdd(TwoTo(53), -1))}

ScalarInputs ==
    {VI64(x) : x \in I64Inputs} \cup {VU64(x) : x \in U64Inputs}
        \cup Payloads \cup {VSome(p) : p \in Payloads}
        \cup {VSome(VSome(p)) : p \in Payloads}

NotCalled == [tag |-> "NotCalled"]

NoBuilder == [ty |-> "none"]

AllSet == [n \in {"a", "b", "c", "Foo", "Bar", "Baz", "Qux"} |-> "sets"]

BuilderIdle ==
    /\ stage = "idle"
    /\ builder = NoBuilder
    /\ events = <<>>
    /\ result = NotCalled

BytesIdle ==
    /\ memory = <<>>
    /\ generation = 0
    /\ converted = NotCalled
    /\ snapshot = <<>>

ScalarIdle ==
    /\ arg = VUnit
    /\ out = NotCalled

InitScalar ==
    /\ arg \in ScalarInputs
    /\ out = NotCalled
    /\ debug_assertions \in BOOLEAN
    /\ reflect_set = AllSet
    /\ BuilderIdle
    /\ BytesIdle

\* The serializer method of arg's shape is called once.
Call(shapes, ret) ==
    /\ out = NotCalled
    /\ arg.shape \in shapes
    /\ out' = ret
    /\ UNCHANGED <<arg, debug_assertions, reflect_set, stage, builder, events, result,
                   memory, generation, converted, snapshot>>

Call_serialize_i64 == Call({"i64"}, serialize_i64(arg.x))

Call_serialize_u64 == Call({"u64"}, serialize_u64(arg.x))

Call_serialize_none == Call({"none"}, serialize_none)

Call_serialize_some == Call({"some"}, serialize_some(arg.value))

Call_serialize_unit == Call({"unit"}, serialize_unit)

Call_serialize_unit_struct == Call({"unit_struct"}, serialize_unit_struct(arg.name))

Call_serialize_other ==
    Call({"bool", "i32", "u8", "char", "str", "unit_variant", "newtype_struct",
          "newtype_variant"}, Serialize(arg))

NextScalar ==
    \/ Call_serialize_i64
    \/ Call_serialize_u64
    \/ Call_serialize_none
    \/ Call_serialize_some
    \/ Call_serialize_unit
    \/ Call_serialize_unit_struct
    \/ Call_serialize_other

SpecScalar == InitScalar /\ [][NextScalar]_vars

\* ------------------------------------------------------------------ C1

Digits == {"0", "1", "2", "3", "4", "5", "6", "7", "8", "9"}

DigitValue(c) == CHOOSE d \in 0 .. 9 : Digit(d) = c

RECURSIVE MagOfDigits(_)
MagOfDigits(ds) ==
    IF ds = <<>> THEN MagZero
    ELSE LET m  == MagOfDigits(SubSeq(ds, 1, Len(ds) - 1))
             lo == m[3] * 10 + DigitValue(ds[Len(ds)])
             mi == m[2] * 10 + (lo \div Limb)
         IN  <<m[1] * 10 + (mi \div Limb), mi % Limb, lo % Limb>>

\* The integer a decimal numeral (an optional "-", then digits) denotes.
IsNumeral(t) ==
    LET ds == IF t # <<>> /\ t[1] = "-" THEN Tail(t) ELSE t
    IN  ds # <<>> /\ \A i \in DOMAIN ds : ds[i] \in Digits

NumeralValue(t) ==
    IF t[1] = "-" THEN MkInt(TRUE, MagOfDigits(Tail(t))) ELSE MkInt(FALSE, MagOfDigits(t))

\* msg holds v's decimal numeral, whole: not as part of a longer numeral.
MessageNames(msg, v) ==
    \E i, j \in DOMAIN msg :
        /\ i <= j
        /\ IsNumeral(SubSeq(msg, i, j))
        /\ i = 1 \/ msg[i - 1] \notin Digits \cup {"-"}
        /\ j = Len(msg) \/ msg[j + 1] \notin Digits
        /\ NumeralValue(SubSeq(msg, i, j)) = v

\* |v| <= 2^53 - 1.
InSafeRange(v) == v.mag[1] < 2^5

\* C1: a 64-bit integer converts to the host number equal to it exactly when
\* its magnitude is at most 2^53 - 1; outside that range the conversion fails
\* with an error whose message holds the integer's decimal numeral.
C1_SafeIntegerRange ==
    (out # NotCalled /\ arg.shape \in {"i64", "u64"}) =>
        IF InSafeRange(arg.x)
        THEN out = Ok(JsNumber(arg.x))
        ELSE out.tag = "Err" /\ MessageNames(out.msg, arg.x)

\* 9007199254740992 was refused, with its numeral in the message.
C1_Witness ==
    /\ arg = VI64(TwoTo(53))
    /\ out.tag = "Err"
    /\ SubSeq(out.msg, 1, 16) =
         <<"9", "0", "0", "7", "1", "9", "9", "2", "5", "4", "7", "4", "0", "9", "9", "2">>

\* ------------------------------------------------------------------ C9

\* C9: none, unit, a unit struct and some(unit) all convert to the host's
\* undefined, and some(v) converts to exactly what v converts to.
C9_OptionTransparent ==
    out # NotCalled =>
        /\ arg.shape \in {"none", "unit", "unit_struct"} => out = Ok(UNDEFINED)
        /\ arg = VSome(VUnit) => out = Ok(UNDEFINED)
        /\ arg = VSome(VI32(5)) => out = Ok(JsNumber(Small(5)))
        /\ arg.shape = "some" => out = Serialize(arg.value)

\* some(5) was converted.
C9_Witness == arg = VSome(VI32(5)) /\ out = Ok(JsNumber(Small(5)))

\* ------------------------------------------------ the builder specification

\* An integer no double holds safely: its conversion fails.
Unsafe == VI64(TwoTo(53))

Elements == {VI32(1), VSeq(<<VI32(2)>>), Unsafe, VStruct(<<(<<"a", Unsafe>>)>>)}

Keys == {VI32(1), VU8(1), VStr("k"), Unsafe}

MapValues == {VI32(1), VI32(2), VSeq(<<Unsafe>>)}

Labels == {"a", "b", "c"}

FieldValues == {VI32(1), Unsafe}

\* Values converted in one call: the bare variants, and whole composites
\* driven by a producer that follows the protocol.
Whole ==
    {VUnitVariant("Foo"), VNewtypeVariant("Bar", VI32(5)), VNewtypeVariant("Qux", VI32(5)),
     VNewtypeVariant("Bar", Unsafe), VNewtypeVariant("Bar", VSeq(<<VI32(1), VI32(2)>>)),
     VTupleVariant("Baz", <<VI32(1), VI32(2)>>),
     VStructVariant("Qux", <<(<<"a", VI32(1)>>)>>),
     VMap(<<(<<VI32(1), VI32(1)>>), (<<VU8(1), VI32(2)>>)>>),
     VSeq(<<VI32(1), Unsafe>>), VTupleVariant("Baz", <<Unsafe>>),
     VMap(<<(<<VI32(1), Unsafe>>)>>), VStructVariant("Qux", <<(<<"b", Unsafe>>)>>)}

\* The host sets every property, or refuses or throws on one name.
HostBehaviours ==
    {AllSet} \cup {[AllSet EXCEPT ![n] = h] : n \in {"a", "Qux"}, h \in {"refuses", "throws"}}

InitBuild ==
    /\ debug_assertions \in BOOLEAN
    /\ reflect_set \in HostBehaviours
    /\ BuilderIdle
    /\ ScalarIdle
    /\ BytesIdle

Untouched == <<arg, out, debug_assertions, reflect_set, memory, generation, converted, snapshot>>

\* serializer.serialize_seq / _map / _struct / _tuple_variant / _struct_variant:
\* the producer receives a fresh builder.
Open(b) ==
    /\ stage = "idle"
    /\ stage' = "open"
    /\ builder' = b
    /\ UNCHANGED <<events, result, Untouched>>

Open_seq == Open(serialize_seq)

Open_map == Open(serialize_map)

Open_struct == Open(serialize_struct("struct"))

Open_tuple_variant == Open(serialize_tuple_variant("Baz"))

Open_struct_variant == Open(serialize_struct_variant("Qux"))

\* The producer calls one builder method; a panic ends the conversion.
Called(ev, s) ==
    /\ stage = "open"
    /\ events' = Append(events, [ev |-> ev, ret |-> s.ret, before |-> builder])
    /\ builder' = s.self
    /\ IF s.ret.tag = "Panic"
       THEN stage' = "panicked" /\ result' = s.ret
       ELSE UNCHANGED <<stage, result>>
    /\ UNCHANGED Untouched

Call_builder(ev) == Called(ev, Deliver(builder, ev))

InnerTy == IF builder.ty = "VariantSerializer" THEN builder.inner.ty ELSE builder.ty

SerializeElement ==
    /\ InnerTy = "ArraySerializer"
    /\ Len(events) < MaxElements
    /\ \E v \in Elements : Call_builder(Element(v))

SerializeKey ==
    /\ InnerTy = "MapSerializer"
    /\ Len(events) < MaxMapEvents
    /\ \E v \in Keys : Call_builder(Key(v))

SerializeValue ==
    /\ InnerTy = "MapSerializer"
    /\ Len(events) < MaxMapEvents
    /\ \E v \in MapValues : Call_builder(Value(v))

SerializeField ==
    /\ InnerTy = "ObjectSerializer"
    /\ Len(events) < MaxFields
    /\ \E l \in Labels, v \in FieldValues : Call_builder(Field(l, v))

\* The producer returns the error its last builder call returned (`?`).
Propagate ==
    /\ stage = "open"
    /\ events # <<>>
    /\ events[Len(events)].ret.tag = "Err"
    /\ stage' = "propagated"
    /\ result' = events[Len(events)].ret
    /\ UNCHANGED <<builder, events, Untouched>>

\* The producer calls end, whatever the earlier calls returned.
End ==
    /\ stage = "open"
    /\ result' = Finish(builder)
    /\ stage' = IF result'.tag = "Panic" THEN "panicked" ELSE "ended"
    /\ UNCHANGED <<builder, events, Untouched>>

\* A whole value converted in one call of the serializer.
Convert ==
    /\ stage = "idle"
    /\ \E v \in Whole :
        /\ arg' = v
        /\ result' = Serialize(v)
    /\ stage' = IF result'.tag = "Panic" THEN "panicked" ELSE "converted"
    /\ UNCHANGED <<out, builder, events, debug_assertions, reflect_set,
                   memory, generation, converted, snapshot>>

NextBuild ==
    \/ Open_seq
    \/ Open_map
    \/ Open_struct
    \/ Open_tuple_variant
    \/ Open_struct_variant
    \/ SerializeElement
    \/ SerializeKey
    \/ SerializeValue
    \/ SerializeField
    \/ Propagate
    \/ End
    \/ Convert

Spec == InitBuild /\ [][NextBuild]_vars

\* ------------------------------------------------ reading the event log

\* The builder as event i left it.
After(i) == IF i = Len(events) THEN builder ELSE events[i + 1].before

AllOk == \A i \in DOMAIN events : events[i].ret.tag = "Ok"

\* What a child converts to, when it converts.
Converted(v) == Serialize(v).value

\* The value holds a 64-bit integer outside the safe range somewhere.
RECURSIVE Unrepresentable(_)
Unrepresentable(v) ==
    CASE v.shape \in {"i64", "u64"} -> ~InSafeRange(v.x)
      [] v.shape \in {"some", "newtype_struct", "newtype_variant"} ->
           Unrepresentable(v.value)
      [] v.shape \in {"seq", "tuple_variant"} ->
           \E i \in DOMAIN v.elems : Unrepresentable(v.elems[i])
      [] v.shape = "map" ->
           \E i \in DOMAIN v.pairs :
               Unrepresentable(v.pairs[i][1]) \/ Unrepresentable(v.pairs[i][2])
      [] v.shape \in {"struct", "struct_variant"} ->
           \E i \in DOMAIN v.fields : Unrepresentable(v.fields[i][2])
      [] OTHER -> FALSE

\* The host record <<name: value>>, one field.
Tagged(name, value) == [k |-> "Object", props |-> <<[name |-> name, value |-> value]>>]

\* ------------------------------------------------------------------ C2

\* C2: a put_key that arrives while a key is pending is rejected, and a finish
\* that arrives while a key is pending returns no host map.
C2_MalformedRejected ==
    /\ \A i \in DOMAIN events :
           (/\ events[i].before.ty = "MapSerializer"
            /\ events[i].ev.op = "key"
            /\ events[i].before.next_key.some)
               => /\ events[i].ret.tag # "Ok"
                  /\ After(i).next_key = events[i].before.next_key
    /\ (stage = "ended" /\ builder.ty = "MapSerializer" /\ builder.next_key.some)
           => result.tag # "Ok"

\* ------------------------------------------------------------------ C10

\* C10: after a Map builder event whose child conversion failed, the builder
\* holds no pending key and its host map is as it was.
C10_FailedEventLeavesNoKey ==
    \A i \in DOMAIN events :
        (events[i].before.ty = "MapSerializer" /\ events[i].ret.tag = "Err")
            => /\ After(i).next_key = None
               /\ After(i).target = events[i].before.target

\* ------------------------------------------------------------------ C3

\* C3, as stated: once a child conversion has failed, no host value is returned
\* to the caller, whatever the producer does next.
C3_NoValueAfterChildFailure ==
    (\E i \in DOMAIN events : Unrepresentable(events[i].ev.value))
        => result.tag # "Ok"

\* C3, amended: the builder call that converts a failing child returns the
\* child's error and leaves the builder's container as it was; a producer that
\* returns at that error returns it to the caller; and a whole value with a
\* failing child, driven by a producer that follows the protocol, converts to
\* that error and to no host value.
C3_ChildFailurePropagates ==
    /\ \A i \in DOMAIN events :
           Unrepresentable(events[i].ev.value)
               => /\ events[i].ret.tag \in {"Err", "Panic"}
                  /\ events[i].ret.tag = "Err"
                         => MessageNames(events[i].ret.msg, TwoTo(53))
                  /\ After(i).ty # "VariantSerializer"
                         => After(i).target = events[i].before.target
                  /\ After(i).ty = "VariantSerializer"
                         => After(i).inner.target = events[i].before.inner.target
    /\ stage = "propagated"
           => result.tag = "Err" /\ result = events[Len(events)].ret
    /\ (stage \in {"ended", "converted"} /\ result.tag = "Ok")
           => /\ \A i \in DOMAIN events :
                     Unrepresentable(events[i].ev.value) => events[i].ret.tag = "Err"
              /\ stage = "converted" => ~Unrepresentable(arg)
    /\ (stage = "converted" /\ Unrepresentable(arg))
           => result.tag = "Err" /\ MessageNames(result.msg, TwoTo(53))

\* A failing element's error came back from the builder and the producer
\* returned it.
C3_Witness ==
    /\ stage = "propagated"
    /\ builder.ty = "ArraySerializer"
    /\ Len(events) = 2
    /\ events[1].ret.tag = "Ok"
    /\ Unrepresentable(events[2].ev.value)
    /\ result.tag = "Err"

\* ------------------------------------------------------------------ C4

\* C4: when the host rejects a field assignment, in the Record Builder's
\* put_field or in the Variant Wrapper's finish, the caller gets an error value.
C4_HostRejectionIsAnError ==
    /\ \A i \in DOMAIN events :
           (/\ events[i].ev.op = "field"
            /\ reflect_set[events[i].ev.key] # "sets"
            /\ ~Unrepresentable(events[i].ev.value))
               => events[i].ret.tag = "Err"
    /\ (/\ stage \in {"ended", "panicked"}
        /\ builder.ty = "VariantSerializer"
        /\ reflect_set[builder.variant] # "sets")
           => result.tag = "Err"

\* ------------------------------------------------------------------ C5

DistinctLabels ==
    \A i, j \in DOMAIN events : events[i].ev.key = events[j].ev.key => i = j

HostSetsLabels == \A i \in DOMAIN events : reflect_set[events[i].ev.key] = "sets"

\* The finished record of the fields delivered, in the order delivered.
RecordOfEvents ==
    [k |-> "Object",
     props |-> [i \in DOMAIN events |->
                   [name |-> events[i].ev.key, value |-> Converted(events[i].ev.value)]]]

ArrayOfEvents ==
    [k |-> "Array", items |-> [i \in DOMAIN events |-> Converted(events[i].ev.value)]]

\* C5: a unit variant converts to its name as a host string; a newtype, tuple
\* or struct variant converts to a record with the one field named as the
\* variant, holding the converted payload, the array of the converted
\* elements, or the record of the converted fields.
C5_VariantShapes ==
    /\ (stage = "converted" /\ arg.shape = "unit_variant")
           => result = Ok(JsString(arg.variant))
    /\ (/\ stage = "converted"
        /\ arg.shape = "newtype_variant"
        /\ ~Unrepresentable(arg.value)
        /\ reflect_set[arg.variant] = "sets")
           => result = Ok(Tagged(arg.variant, Converted(arg.value)))
    /\ (stage = "converted" /\ arg = VNewtypeVariant("Bar", VI32(5)))
           => result = Ok(Tagged("Bar", JsNumber(Small(5))))
    /\ (stage = "converted" /\ arg = VTupleVariant("Baz", <<VI32(1), VI32(2)>>))
           => result = Ok(Tagged("Baz", [k |-> "Array",
                                         items |-> <<JsNumber(Small(1)), JsNumber(Small(2))>>]))
    /\ (/\ stage = "converted"
        /\ arg = VStructVariant("Qux", <<(<<"a", VI32(1)>>)>>)
        /\ reflect_set["a"] = "sets"
        /\ reflect_set["Qux"] = "sets")
           => result = Ok(Tagged("Qux", Tagged("a", JsNumber(Small(1)))))
    /\ (/\ stage = "ended"
        /\ builder.ty = "VariantSerializer"
        /\ AllOk
        /\ reflect_set[builder.variant] = "sets")
           => IF builder.inner.ty = "ArraySerializer"
              THEN result = Ok(Tagged(builder.variant, ArrayOfEvents))
              ELSE (DistinctLabels /\ HostSetsLabels)
                       => result = Ok(Tagged(builder.variant, RecordOfEvents))

\* A tuple variant of two elements was finished.
C5_Witness ==
    /\ stage = "ended"
    /\ builder.ty = "VariantSerializer"
    /\ builder.inner.ty = "ArraySerializer"
    /\ Len(events) = 2
    /\ AllOk
    /\ result.tag = "Ok"

\* ------------------------------------------------------------------ C7

\* The events are whole pairs, key then value, every call returning Ok.
WellFormedPairs ==
    /\ Len(events) % 2 = 0
    /\ AllOk
    /\ \A i \in DOMAIN events :
           events[i].ev.op = IF i % 2 = 1 THEN "key" ELSE "value"

PairCount == Len(events) \div 2

HostKey(p) == Converted(events[2 * p - 1].ev.value)

HostValue(p) == Converted(events[2 * p].ev.value)

\* The last pair whose key converts to the host key of pair p.
LastWith(p) ==
    CHOOSE q \in 1 .. PairCount :
        /\ HostKey(q) = HostKey(p)
        /\ \A r \in 1 .. PairCount : HostKey(r) = HostKey(p) => r <= q

\* C7: the finished map of a well-formed sequence of pairs holds each distinct
\* converted key once, with the converted value of the last pair that has
\* that converted key.
C7_LastPairWins ==
    (stage = "ended" /\ builder.ty = "MapSerializer" /\ WellFormedPairs)
        => /\ result.tag = "Ok"
           /\ result.value.k = "Map"
           /\ \A p \in 1 .. PairCount :
                  \E e \in DOMAIN result.value.entries :
                      /\ result.value.entries[e].key = HostKey(p)
                      /\ result.value.entries[e].value = HostValue(LastWith(p))
           /\ \A e \in DOMAIN result.value.entries :
                  \E p \in 1 .. PairCount : result.value.entries[e].key = HostKey(p)
           /\ \A e, f \in DOMAIN result.value.entries :
                  result.value.entries[e].key = result.value.entries[f].key => e = f

\* Two distinct source keys with one host key: the second pair's value stands.
C7_Witness ==
    /\ stage = "ended"
    /\ builder.ty = "MapSerializer"
    /\ WellFormedPairs
    /\ PairCount = 2
    /\ events[1].ev.value = VI32(1)
    /\ events[3].ev.value = VU8(1)
    /\ events[2].ev.value = VI32(1)
    /\ events[4].ev.value = VI32(2)
    /\ result = Ok([k |-> "Map",
                    entries |-> <<[key |-> JsNumber(Small(1)), value |-> JsNumber(Small(2))]>>])

\* ------------------------------------------------------------------ C8

ByteValues == {0, 1, 255}

\* The slice v: &[u8] handed to serialize_bytes: all of the modelled memory.
Slice == [ptr |-> 1, len |-> Len(memory)]

\* Uint8Array::view(v): a typed array over the source memory itself.  It is
\* good for the memory buffer it was made on; once the memory has been
\* relocated (grown), that buffer is detached.
Uint8Array_view(v) ==
    [k |-> "Uint8Array", buffer |-> "wasm", made |-> generation,
     ptr |-> v.ptr, len |-> v.len]

\* The elements a typed array shows now.
Uint8Array_elements(a) ==
    IF a.buffer = "js" THEN a.bytes
    ELSE IF a.made = generation THEN SubSeq(memory, a.ptr, a.ptr + a.len - 1)
    ELSE <<>>

\* Uint8Array::new(&typed_array): a new array over a fresh buffer of the
\* host's own, holding a copy of the elements.
Uint8Array_new(a) ==
    [k |-> "Uint8Array", buffer |-> "js", bytes |-> Uint8Array_elements(a)]

\* Mutant: the view is returned, not a copy of it.
serialize_bytes_view(v) == Ok(Uint8Array_view(v))

serialize_bytes(v) == Ok(Uint8Array_new(Uint8Array_view(v)))

InitBytes ==
    /\ memory \in UNION {[1 .. n -> ByteValues] : n \in 0 .. MaxBytes}
    /\ generation = 0
    /\ converted = NotCalled
    /\ snapshot = <<>>
    /\ debug_assertions \in BOOLEAN
    /\ reflect_set = AllSet
    /\ BuilderIdle
    /\ ScalarIdle

NotBytes == <<arg, out, debug_assertions, reflect_set, stage, builder, events, result>>

\* serialize_bytes runs, view and copy in one call with nothing between them.
Call_serialize_bytes ==
    /\ converted = NotCalled
    /\ converted' = serialize_bytes(Slice)
    /\ snapshot' = memory
    /\ UNCHANGED <<memory, generation, NotBytes>>

\* The owner of the source buffer writes a byte of it.
MutateSource ==
    /\ \E i \in DOMAIN memory, b \in ByteValues :
           /\ memory[i] # b
           /\ memory' = [memory EXCEPT ![i] = b]
    /\ UNCHANGED <<generation, converted, snapshot, NotBytes>>

\* An allocation grows the source memory: it is relocated, and every view
\* made on the old buffer is left detached.
GrowMemory ==
    /\ generation < MaxGrow
    /\ generation' = generation + 1
    /\ UNCHANGED <<memory, converted, snapshot, NotBytes>>

NextBytes ==
    \/ Call_serialize_bytes
    \/ MutateSource
    \/ GrowMemory

SpecBytes == InitBytes /\ [][NextBytes]_vars

\* ------------------------------------------------------------------ C6

\* C6: what serialize_bytes returns is a copy in a buffer of the host's own
\* (no view of the source memory is kept), holding the slice's bytes as they
\* were when it ran, whatever is written to the source or however often the
\* source memory is relocated afterwards.
C6_BytesCopied ==
    converted # NotCalled
        => /\ converted.tag = "Ok"
           /\ converted.value.buffer = "js"
           /\ Uint8Array_elements(converted.value) = snapshot

\* The source was written and relocated after the conversion.
C6_Witness ==
    /\ converted # NotCalled
    /\ Len(snapshot) = 2
    /\ memory # snapshot
    /\ generation > 0
    /\ Uint8Array_elements(converted.value) = snapshot

====
